---------------------------- MODULE Spec2Model ----------------------------
(***************************************************************************)
(* A model of hyperwheel's rrdf_sync.py: the synchronisation of raw .h5    *)
(* files from the scanner into the DICOM acquisition folders of the local  *)
(* export tree.  Names and metadata values are strings, handled character  *)
(* by character as the regular expressions and strptime handle them.       *)
(***************************************************************************)
EXTENDS Integers, Sequences, FiniteSets, TLC

None == "<None>"

-----------------------------------------------------------------------------
(* Strings *)

Char(s, i) == SubSeq(s, i, i)

Digits == {"0", "1", "2", "3", "4", "5", "6", "7", "8", "9"}

AllDigits(s) == \A i \in 1..Len(s) : Char(s, i) \in Digits

DigitVal(c) ==
    CASE c = "0" -> 0 [] c = "1" -> 1 [] c = "2" -> 2 [] c = "3" -> 3
      [] c = "4" -> 4 [] c = "5" -> 5 [] c = "6" -> 6 [] c = "7" -> 7
      [] c = "8" -> 8 [] c = "9" -> 9

RECURSIVE ToInt(_)
ToInt(s) ==
    IF Len(s) = 0 THEN 0
    ELSE 10 * ToInt(SubSeq(s, 1, Len(s) - 1)) + DigitVal(Char(s, Len(s)))

\* sub in s
Contains(s, sub) ==
    \E i \in 1..(Len(s) - Len(sub) + 1) : SubSeq(s, i, i + Len(sub) - 1) = sub

\* The index of the first sep in s, or 0.
IndexOf(s, sep) ==
    IF \E i \in 1..Len(s) : Char(s, i) = sep
    THEN CHOOSE i \in 1..Len(s) :
            /\ Char(s, i) = sep
            /\ \A j \in 1..(i - 1) : Char(s, j) # sep
    ELSE 0

\* s.split(sep)
RECURSIVE Split(_, _)
Split(s, sep) ==
    LET i == IndexOf(s, sep)
    IN  IF i = 0 THEN <<s>>
        ELSE <<SubSeq(s, 1, i - 1)>> \o Split(SubSeq(s, i + 1, Len(s)), sep)

UpperCase == "ABCDEFGHIJKLMNOPQRSTUVWXYZ"
LowerCase == "abcdefghijklmnopqrstuvwxyz"

LowerChar(c) ==
    IF \E k \in 1..26 : Char(UpperCase, k) = c
    THEN Char(LowerCase, CHOOSE k \in 1..26 : Char(UpperCase, k) = c)
    ELSE c

\* s.lower()
RECURSIVE Lower(_)
Lower(s) ==
    IF Len(s) = 0 THEN s
    ELSE LowerChar(Char(s, 1)) \o Lower(SubSeq(s, 2, Len(s)))

\* re.search's result when nothing matches
NoMatch == <<>>

\* Whether prefix(\d{8})_(\d{6})suffix matches s at position i.
StampAt(s, i, prefix, suffix) ==
    LET p == i + Len(prefix)
    IN  /\ p + 15 + Len(suffix) - 1 <= Len(s)
        /\ SubSeq(s, i, p - 1) = prefix
        /\ AllDigits(SubSeq(s, p, p + 7))
        /\ Char(s, p + 8) = "_"
        /\ AllDigits(SubSeq(s, p + 9, p + 14))
        /\ SubSeq(s, p + 15, p + 14 + Len(suffix)) = suffix

\* re.search(prefix(\d{8})_(\d{6})suffix, s).groups(): the leftmost match.
StampSearch(s, prefix, suffix) ==
    IF \E i \in 1..Len(s) : StampAt(s, i, prefix, suffix)
    THEN LET i == CHOOSE k \in 1..Len(s) :
                     /\ StampAt(s, k, prefix, suffix)
                     /\ \A j \in 1..(k - 1) : ~StampAt(s, j, prefix, suffix)
             p == i + Len(prefix)
         IN  <<SubSeq(s, p, p + 7), SubSeq(s, p + 9, p + 14)>>
    ELSE NoMatch

-----------------------------------------------------------------------------
(* datetime: seconds since 2000-01-01T00:00:00 and microseconds *)

\* The outcome of a conversion that raised ValueError
ValueError == [ok |-> FALSE, sec |-> 0, us |-> 0]

IsLeap(y) == (y % 4 = 0 /\ y % 100 # 0) \/ y % 400 = 0

DaysInMonth(y, m) ==
    IF m = 2 THEN (IF IsLeap(y) THEN 29 ELSE 28)
    ELSE IF m \in {4, 6, 9, 11} THEN 30 ELSE 31

RECURSIVE DaysBeforeMonth(_, _)
DaysBeforeMonth(y, m) ==
    IF m = 1 THEN 0 ELSE DaysBeforeMonth(y, m - 1) + DaysInMonth(y, m - 1)

Ordinal(y, m, d) ==
    365 * (y - 1) + ((y - 1) \div 4) - ((y - 1) \div 100) + ((y - 1) \div 400)
      + DaysBeforeMonth(y, m) + d

EpochOrdinal == Ordinal(2000, 1, 1)

\* datetime.datetime(y, m, d, H, M, S, us)
DateTime(y, m, d, H, M, S, us) ==
    IF /\ y \in 1..9999
       /\ m \in 1..12
       /\ d \in 1..DaysInMonth(y, m)
       /\ H \in 0..23
       /\ M \in 0..59
       /\ S \in 0..59
    THEN [ok  |-> TRUE,
          sec |-> (Ordinal(y, m, d) - EpochOrdinal) * 86400 + H * 3600 + M * 60 + S,
          us  |-> us]
    ELSE ValueError

\* strptime's %m %d %H %M %S directives: one or two digits, in range.
Field(s, lo, hi) ==
    /\ Len(s) \in {1, 2}
    /\ AllDigits(s)
    /\ ToInt(s) \in lo..hi

\* strptime(s, "%Y%m%d%H%M%S"): with no separators every field must take
\* two digits for the whole string to be converted.
StrptimeCompact(s) ==
    IF Len(s) = 14 /\ AllDigits(s)
    THEN DateTime(ToInt(SubSeq(s, 1, 4)), ToInt(SubSeq(s, 5, 6)),
                  ToInt(SubSeq(s, 7, 8)), ToInt(SubSeq(s, 9, 10)),
                  ToInt(SubSeq(s, 11, 12)), ToInt(SubSeq(s, 13, 14)), 0)
    ELSE ValueError

\* %f: one to six digits, padded on the right to microseconds.
RECURSIVE Micro(_)
Micro(f) == IF Len(f) >= 6 THEN ToInt(f) ELSE Micro(f \o "0")

\* strptime(s, "%Y%m%d%H%M%S.%f")
StrptimeFraction(s) ==
    LET parts == Split(s, ".")
    IN  IF /\ Len(parts) = 2
           /\ Len(parts[2]) \in 1..6
           /\ AllDigits(parts[2])
           /\ StrptimeCompact(parts[1]).ok
        THEN [StrptimeCompact(parts[1]) EXCEPT !.us = Micro(parts[2])]
        ELSE ValueError

\* strptime(s, "%Y-%m-%d %H:%M:%S")
StrptimeListing(s) ==
    LET halves == Split(s, " ")
        date   == IF Len(halves) = 2 THEN Split(halves[1], "-") ELSE <<>>
        time   == IF Len(halves) = 2 THEN Split(halves[2], ":") ELSE <<>>
    IN  IF /\ Len(date) = 3
           /\ Len(time) = 3
           /\ Len(date[1]) = 4
           /\ AllDigits(date[1])
           /\ Field(date[2], 1, 12)
           /\ Field(date[3], 1, 31)
           /\ Field(time[1], 0, 23)
           /\ Field(time[2], 0, 59)
           /\ Field(time[3], 0, 61)
        THEN DateTime(ToInt(date[1]), ToInt(date[2]), ToInt(date[3]),
                      ToInt(time[1]), ToInt(time[2]), ToInt(time[3]), 0)
        ELSE ValueError

\* a < b on datetimes and on timedeltas
Before(a, b) == a.sec < b.sec \/ (a.sec = b.sec /\ a.us < b.us)

\* a - b, a timedelta normalised to 0 <= us < 10^6
Minus(a, b) ==
    IF a.us >= b.us
    THEN [ok |-> TRUE, sec |-> a.sec - b.sec, us |-> a.us - b.us]
    ELSE [ok |-> TRUE, sec |-> a.sec - b.sec - 1, us |-> a.us - b.us + 1000000]

\* abs(td)
AbsDelta(td) ==
    IF td.sec >= 0 THEN td
    ELSE IF td.us = 0 THEN [ok |-> TRUE, sec |-> 0 - td.sec, us |-> 0]
    ELSE [ok |-> TRUE, sec |-> 0 - td.sec - 1, us |-> 1000000 - td.us]

-----------------------------------------------------------------------------
(* Collections *)

\* The orders in which a directory scan (glob, os.walk) may list the set S.
Orderings(S) ==
    {o \in [1..Cardinality(S) -> S] : \A i, j \in 1..Cardinality(S) :
                                          i # j => o[i] # o[j]}

Range(f) == {f[x] : x \in DOMAIN f}

\* The sequences of distinct elements of S of length at most n.
RECURSIVE DistinctSeqs(_, _)
DistinctSeqs(S, n) ==
    IF n = 0 THEN {<<>>}
    ELSE LET shorter == DistinctSeqs(S, n - 1)
         IN  shorter \cup
             UNION {{Append(q, x) : x \in S \ Range(q)} :
                        q \in {r \in shorter : Len(r) = n - 1}}

Last(q) == q[Len(q)]

-----------------------------------------------------------------------------
VARIABLES
    pc,                  \* the statement main() or the function under analysis is at
    stdout_lines,        \* get_latest_exam_folder: folders_output
    line_no,             \* get_latest_exam_folder: the next line of the for loop
    exam_folders,        \* get_latest_exam_folder: the dict, in insertion order
    latest_exam_folder,  \* main: latest_exam_folder
    export_dirs,         \* the directories under DICOM_EXPORT_ROOT, as paths from it
    target_session_name, \* find_dicom_session_path: target_session_name
    walk_stack,          \* find_dicom_session_path: directories os.walk has yet to yield
    dicom_session_path,  \* main: dicom_session_path
    download,            \* the names of the files in TEMP_DOWNLOAD_DIR/<exam folder>
    folders,             \* the session's subfolders: their .dcm and .h5 files by name
    dicom_acq_times,     \* relocate_rrdf_files_by_time: the dict, in insertion order
    rrdf_file_times,     \* relocate_rrdf_files_by_time: the dict, in insertion order
    file_no,             \* relocate_rrdf_files_by_time: the next item of the for loop
    report,              \* what was printed for each raw file of the loop
    matched,             \* the best_match_folder of each raw file of the loop
    calipr_call,         \* the last call of rename_calipr_dicom_files
    config,              \* what NETWORK_CONFIG_PATH holds
    reachable,           \* whether the scanner accepts the SSH connection
    temp_dir,            \* whether TEMP_DOWNLOAD_DIR exists
    exc,                 \* whether an exception is propagating out of main's try
    exit_code            \* the process's exit status, once it has one

listingVars == <<stdout_lines, line_no, exam_folders, latest_exam_folder>>

sessionVars == <<export_dirs, target_session_name, walk_stack, dicom_session_path>>

fileVars == <<download, folders>>

relocationVars == <<dicom_acq_times, rrdf_file_times, file_no, report, matched,
                    calipr_call>>

mainVars == <<config, reachable, temp_dir, exc, exit_code>>

vars == <<pc, listingVars, sessionVars, fileVars, relocationVars, mainVars>>

-----------------------------------------------------------------------------
(* get_latest_exam_folder *)

\* line.split(): the fields between runs of blanks
SplitBlank(line) == SelectSeq(Split(line, " "), LAMBDA f : f # "")

\* dict[key] = value: a new key goes last, a known key keeps its place.
DictSet(d, key, value) ==
    IF \E i \in 1..Len(d) : d[i].key = key
    THEN [i \in 1..Len(d) |->
              IF d[i].key = key THEN [key |-> key, value |-> value] ELSE d[i]]
    ELSE Append(d, [key |-> key, value |-> value])

\* MaxKey taking the smallest value: the comparison turned around.
MinKey(d) ==
    LET i == CHOOSE k \in 1..Len(d) :
                 /\ \A j \in 1..Len(d) : ~Before(d[j].value, d[k].value)
                 /\ \A j \in 1..(k - 1) : Before(d[k].value, d[j].value)
    IN  d[i].key

\* max(d, key=d.get): the first key, in iteration order, that no other exceeds.
MaxKey(d) ==
    LET i == CHOOSE k \in 1..Len(d) :
                 /\ \A j \in 1..Len(d) : ~Before(d[k].value, d[j].value)
                 /\ \A j \in 1..(k - 1) : Before(d[j].value, d[k].value)
    IN  d[i].key

\* The timestamp the loop body parses from one line's fields.
FolderDatetime(finfo) ==
    StrptimeListing(finfo[6] \o " " \o Split(finfo[7], ".")[1])

\* Whether the loop body raises on this line (IndexError, ValueError).
LineRaises(line) ==
    /\ Contains(line, "rrdf_")
    /\ IF Len(SplitBlank(line)) < 7 THEN TRUE
       ELSE ~FolderDatetime(SplitBlank(line)).ok

\* ssh.exec_command("ls -l --full-time RRDF"); stdout.read().split('\n')
ExecListing(lines) ==
    /\ pc = "list"
    /\ stdout_lines' = lines
    /\ line_no' = 1
    /\ exam_folders' = <<>>
    /\ pc' = "parse_line"
    /\ UNCHANGED <<latest_exam_folder, sessionVars, fileVars, relocationVars,
                   mainVars>>

\* One iteration of the for loop over folders_output.
ParseLine ==
    /\ pc = "parse_line"
    /\ line_no <= Len(stdout_lines)
    /\ ~LineRaises(stdout_lines[line_no])
    /\ LET line  == stdout_lines[line_no]
           finfo == SplitBlank(line)
       IN  exam_folders' =
               IF Contains(line, "rrdf_")
               THEN DictSet(exam_folders, Last(finfo), FolderDatetime(finfo))
               ELSE exam_folders
    /\ line_no' = line_no + 1
    /\ UNCHANGED <<pc, stdout_lines, latest_exam_folder, sessionVars, fileVars,
                   relocationVars, mainVars>>

\* A line with the prefix and too few fields or an unparsable time: the
\* exception leaves get_latest_exam_folder.
ParseLineRaises ==
    /\ pc = "parse_line"
    /\ line_no <= Len(stdout_lines)
    /\ LineRaises(stdout_lines[line_no])
    /\ pc' = "raised"
    /\ UNCHANGED <<listingVars, sessionVars, fileVars, relocationVars, mainVars>>

\* if not exam_folders: return None; return max(exam_folders, key=...)
SelectLatest ==
    /\ pc = "parse_line"
    /\ line_no > Len(stdout_lines)
    /\ latest_exam_folder' =
           IF exam_folders = <<>> THEN None ELSE MaxKey(exam_folders)
    /\ pc' = "listed"
    /\ UNCHANGED <<stdout_lines, line_no, exam_folders, sessionVars, fileVars,
                   relocationVars, mainVars>>

-----------------------------------------------------------------------------
(* find_dicom_session_path *)

\* The path returned for "not found": find_dicom_session_path's None.
NoPath == <<None>>

\* f"{date_part[0:4]}-{date_part[4:6]}-{date_part[6:8]}" and
\* f"{time_part[0:2]}_{time_part[2:4]}_{time_part[4:6]}", joined by "_"
SessionName(date_part, time_part) ==
    SubSeq(date_part, 1, 4) \o "-" \o SubSeq(date_part, 5, 6) \o "-"
      \o SubSeq(date_part, 7, 8) \o "_" \o SubSeq(time_part, 1, 2) \o "_"
      \o SubSeq(time_part, 3, 4) \o "_" \o SubSeq(time_part, 5, 6)

\* The dirs os.walk yields with root: the names of root's subdirectories.
SubDirs(root) ==
    {Last(p) : p \in {q \in export_dirs : /\ Len(q) = Len(root) + 1
                                          /\ SubSeq(q, 1, Len(root)) = root}}

\* InDirs matching any directory whose name starts with the target.
InDirsByPrefix(name, dirs) ==
    \E d \in dirs : Len(d) >= Len(name) /\ SubSeq(d, 1, Len(name)) = name

\* `target_session_name in dirs`
InDirs(name, dirs) == name \in dirs

\* re.search found no rrdf_<date>_<time>: report and return None.
FolderNameUnparsable ==
    /\ pc = "find"
    /\ StampSearch(latest_exam_folder, "rrdf_", "") = NoMatch
    /\ dicom_session_path' = NoPath
    /\ pc' = "resolved"
    /\ UNCHANGED <<listingVars, export_dirs, target_session_name, walk_stack,
                   fileVars, relocationVars, mainVars>>

\* The name is parsed and os.walk starts at the export root.
DeriveSessionName ==
    /\ pc = "find"
    /\ StampSearch(latest_exam_folder, "rrdf_", "") # NoMatch
    /\ LET groups == StampSearch(latest_exam_folder, "rrdf_", "")
       IN  target_session_name' = SessionName(groups[1], groups[2])
    /\ walk_stack' = << <<>> >>
    /\ pc' = "walk"
    /\ UNCHANGED <<listingVars, export_dirs, dicom_session_path, fileVars,
                   relocationVars, mainVars>>

\* os.walk yields a root whose dirs hold the target: return the joined path.
WalkFound ==
    /\ pc = "walk"
    /\ walk_stack # <<>>
    /\ InDirs(target_session_name, SubDirs(Head(walk_stack)))
    /\ dicom_session_path' = Append(Head(walk_stack), target_session_name)
    /\ pc' = "resolved"
    /\ UNCHANGED <<listingVars, export_dirs, target_session_name, walk_stack,
                   fileVars, relocationVars, mainVars>>

\* os.walk yields a root without the target and goes on, top-down, into its
\* subdirectories in the order the scan listed them.
WalkDescend ==
    /\ pc = "walk"
    /\ walk_stack # <<>>
    /\ ~InDirs(target_session_name, SubDirs(Head(walk_stack)))
    /\ \E order \in Orderings(SubDirs(Head(walk_stack))) :
           walk_stack' =
               [i \in 1..Len(order) |-> Append(Head(walk_stack), order[i])]
                 \o Tail(walk_stack)
    /\ UNCHANGED <<pc, listingVars, export_dirs, target_session_name,
                   dicom_session_path, fileVars, relocationVars, mainVars>>

\* The walk ends without a match: report and return None.
WalkExhausted ==
    /\ pc = "walk"
    /\ walk_stack = <<>>
    /\ dicom_session_path' = NoPath
    /\ pc' = "resolved"
    /\ UNCHANGED <<listingVars, export_dirs, target_session_name, walk_stack,
                   fileVars, relocationVars, mainVars>>

-----------------------------------------------------------------------------
(* Files: a directory's files are a function from name to file *)

EmptyMap == [x \in {} |-> None]

MapPut(m, k, v) == [x \in DOMAIN m \cup {k} |-> IF x = k THEN v ELSE m[x]]

MapDel(m, k) == [x \in DOMAIN m \ {k} |-> m[x]]

\* os.rename(src, dst) inside one directory: dst is replaced when it exists.
OsRename(m, src, dst) ==
    IF src = dst THEN m ELSE MapPut(MapDel(m, src), dst, m[src])

EndsWith(s, suffix) ==
    /\ Len(s) >= Len(suffix)
    /\ SubSeq(s, Len(s) - Len(suffix) + 1, Len(s)) = suffix

-----------------------------------------------------------------------------
(* rename_calipr_dicom_files *)

\* float(content_time_str) for the forms a DICOM time takes, digits with an
\* optional fraction of up to six digits; anything else raises.
Float(str) ==
    LET parts == Split(str, ".")
    IN  IF /\ Len(parts) \in {1, 2}
           /\ Len(parts[1]) \in 1..9
           /\ AllDigits(parts[1])
           /\ Len(parts) = 2 => Len(parts[2]) \in 1..6 /\ AllDigits(parts[2])
        THEN [ok  |-> TRUE,
              sec |-> ToInt(parts[1]),
              us  |-> IF Len(parts) = 2 THEN Micro(parts[2]) ELSE 0]
        ELSE ValueError

\* file_times.sort(key=time): a stable sort of the two entries read.
SortByTime(dcm, order) ==
    IF Before(Float(dcm[order[2]].ct), Float(dcm[order[1]].ct))
    THEN <<order[2], order[1]>>
    ELSE order

ProtonDensityName(base_name) == base_name \o "_protonDensity.dcm"

T2mapName(base_name) == base_name \o "_T2map.dcm"

\* The two os.rename calls; `fault` is the call (1, 2) the file system
\* refuses, 0 when it refuses none.
CaliprRenames(dcm, base_name, sorted, fault) ==
    LET first == OsRename(dcm, sorted[1], ProtonDensityName(base_name))
    IN  IF fault = 1 THEN [dcm |-> dcm, status |-> "rename_error"]
        ELSE IF fault = 2 THEN [dcm |-> first, status |-> "rename_error"]
        ELSE [dcm    |-> OsRename(first, sorted[2], T2mapName(base_name)),
              status |-> "renamed"]

\* rename_calipr_dicom_files on a folder whose .dcm files are dcm, listed by
\* glob in `order`.
RenameCaliprDicomFiles(dcm, base_name, order, fault) ==
    IF Cardinality(DOMAIN dcm) # 2
    THEN [dcm |-> dcm, status |-> "skipped"]
    ELSE IF \E n \in DOMAIN dcm : ~Float(dcm[n].ct).ok
    THEN [dcm |-> dcm, status |-> "read_error"]
    ELSE CaliprRenames(dcm, base_name, SortByTime(dcm, order), fault)

\* What calipr_call holds of one call.
CallRecord(folder, before, result) ==
    [folder |-> folder, before |-> before, status |-> result.status]

NoCall == [folder |-> None, before |-> EmptyMap, status |-> "none"]

-----------------------------------------------------------------------------
(* get_dicom_acquisition_times, parse_rrdf_timestamps *)

\* strptime(dcm.AcquisitionDateTime, "%Y%m%d%H%M%S.%f") of a folder's
\* representative file; not ok when the read or the conversion raises.
AcquisitionTime(file) == StrptimeFraction(file.acq)

\* acq_times after the loop over the folders in `order`, reading in each the
\* file `first[folder]` that glob listed first.
RECURSIVE AcqTimes(_, _, _)
AcqTimes(order, first, i) ==
    IF i = 0 THEN <<>>
    ELSE LET f    == order[i]
             rest == AcqTimes(order, first, i - 1)
         IN  IF DOMAIN folders[f].dcm = {} THEN rest
             ELSE IF ~AcquisitionTime(folders[f].dcm[first[f]]).ok THEN rest
             ELSE DictSet(rest, f, AcquisitionTime(folders[f].dcm[first[f]]))

\* The choices of dicom_files[0], one per folder that holds .dcm files.
Representatives ==
    {c \in [DOMAIN folders -> {None} \cup UNION {DOMAIN folders[f].dcm :
                                                   f \in DOMAIN folders}] :
        \A f \in DOMAIN folders :
            IF DOMAIN folders[f].dcm = {} THEN c[f] = None
            ELSE c[f] \in DOMAIN folders[f].dcm}

\* glob(os.path.join(rrdf_folder_path, '*.h5'))
RawFiles == {n \in download : EndsWith(n, ".h5")}

\* The names the regular expression of parse_rrdf_timestamps matches.
Stamped == {n \in RawFiles : StampSearch(n, "_", ".h5") # NoMatch}

\* strptime(f"{date_part}{time_part}", "%Y%m%d%H%M%S")
RrdfDatetime(n) ==
    LET groups == StampSearch(n, "_", ".h5")
    IN  StrptimeCompact(groups[1] \o groups[2])

\* rrdf_times after the loop over the matching files in `order`.
RrdfTimes(order) ==
    [i \in 1..Len(order) |-> [key |-> order[i], value |-> RrdfDatetime(order[i])]]

\* dicom_acq_times = get_dicom_acquisition_times(dicom_session_path)
IndexAcquisitions ==
    /\ pc = "relocate"
    /\ \E order \in Orderings(DOMAIN folders), first \in Representatives :
           dicom_acq_times' = AcqTimes(order, first, Len(order))
    /\ pc' = "index_rrdf"
    /\ UNCHANGED <<listingVars, sessionVars, fileVars, rrdf_file_times, file_no,
                   report, matched, calipr_call, mainVars>>

\* rrdf_file_times = parse_rrdf_timestamps(temp_download_path)
IndexRawFiles ==
    /\ pc = "index_rrdf"
    /\ \A n \in Stamped : RrdfDatetime(n).ok
    /\ \E order \in Orderings(Stamped) : rrdf_file_times' = RrdfTimes(order)
    /\ file_no' = 1
    /\ report' = [n \in Stamped |-> "pending"]
    /\ matched' = [n \in Stamped |-> None]
    /\ pc' = "loop"
    /\ UNCHANGED <<listingVars, sessionVars, fileVars, dicom_acq_times,
                   calipr_call, mainVars>>

\* strptime raises ValueError on a matched name whose digits are no date:
\* nothing catches it before main's finally.
IndexRawFilesRaises ==
    /\ pc = "index_rrdf"
    /\ \E n \in Stamped : ~RrdfDatetime(n).ok
    /\ pc' = "raised"
    /\ UNCHANGED <<listingVars, sessionVars, fileVars, relocationVars, mainVars>>

-----------------------------------------------------------------------------
(* relocate_rrdf_files_by_time: the loop over rrdf_file_times *)

\* datetime.timedelta(days=1), the loop's first min_time_diff
OneDay == [ok |-> TRUE, sec |-> 86400, us |-> 0]

\* datetime.timedelta(minutes=1)
OneMinute == [ok |-> TRUE, sec |-> 60, us |-> 0]

\* The inner loop from item i on: best_match_folder and min_time_diff.
RECURSIVE Closest(_, _, _, _)
Closest(rrdf_time, i, best_match_folder, min_time_diff) ==
    IF i > Len(dicom_acq_times)
    THEN [folder |-> best_match_folder, diff |-> min_time_diff]
    ELSE LET time_diff == AbsDelta(Minus(dicom_acq_times[i].value, rrdf_time))
         IN  IF Before(time_diff, min_time_diff)
             THEN Closest(rrdf_time, i + 1, dicom_acq_times[i].key, time_diff)
             ELSE Closest(rrdf_time, i + 1, best_match_folder, min_time_diff)

BestMatch(rrdf_time) == Closest(rrdf_time, 1, None, OneDay)

\* CloseMatch with `<=` for `<`: a minute's difference accepted.
CloseMatchInclusive(m) == m.folder # None /\ ~Before(OneMinute, m.diff)

\* `best_match_folder and min_time_diff < datetime.timedelta(minutes=1)`
CloseMatch(m) == m.folder # None /\ Before(m.diff, OneMinute)

\* f"{dest_foldername}.h5"
NewH5Name(dest_foldername) == dest_foldername \o ".h5"

\* `'calipr' in dest_foldername.lower()`
IsCalipr(dest_foldername) == Contains(Lower(dest_foldername), "calipr")

rrdf_path == rrdf_file_times[file_no].key

rrdf_time == rrdf_file_times[file_no].value

InLoop == pc = "loop" /\ file_no <= Len(rrdf_file_times)

\* The else branch: no acquisition within a minute, the file is not moved.
NoCloseMatch ==
    /\ InLoop
    /\ ~CloseMatch(BestMatch(rrdf_time))
    /\ report' = [report EXCEPT ![rrdf_path] = "unmatched"]
    /\ matched' = [matched EXCEPT ![rrdf_path] = BestMatch(rrdf_time).folder]
    /\ file_no' = file_no + 1
    /\ UNCHANGED <<pc, listingVars, sessionVars, fileVars, dicom_acq_times,
                   rrdf_file_times, calipr_call, mainVars>>

\* shutil.move raises (the destination holds the name already, or the file
\* system refuses): caught, the file stays where it was.
MoveFails ==
    /\ InLoop
    /\ CloseMatch(BestMatch(rrdf_time))
    /\ report' = [report EXCEPT ![rrdf_path] = "error"]
    /\ matched' = [matched EXCEPT ![rrdf_path] = BestMatch(rrdf_time).folder]
    /\ file_no' = file_no + 1
    /\ UNCHANGED <<pc, listingVars, sessionVars, fileVars, dicom_acq_times,
                   rrdf_file_times, calipr_call, mainVars>>

\* shutil.move succeeds and os.rename raises: caught, the file stays in the
\* folder under its original name.
RenameFails ==
    /\ InLoop
    /\ CloseMatch(BestMatch(rrdf_time))
    /\ LET dest == BestMatch(rrdf_time).folder
       IN  /\ rrdf_path \notin DOMAIN folders[dest].h5
           /\ download' = download \ {rrdf_path}
           /\ folders' = [folders EXCEPT ![dest].h5 = MapPut(@, rrdf_path, rrdf_path)]
           /\ matched' = [matched EXCEPT ![rrdf_path] = dest]
    /\ report' = [report EXCEPT ![rrdf_path] = "error"]
    /\ file_no' = file_no + 1
    /\ UNCHANGED <<pc, listingVars, sessionVars, dicom_acq_times, rrdf_file_times,
                   calipr_call, mainVars>>

\* The folder's files after shutil.move and os.rename of the raw file
\* original_rrdf_filename, whose content is `content`.
MoveAndRename(h5, original_rrdf_filename, content, dest_foldername) ==
    OsRename(MapPut(h5, original_rrdf_filename, content),
             original_rrdf_filename, NewH5Name(dest_foldername))

\* shutil.move and os.rename succeed; a CALIPR folder's DICOM files are
\* then renamed by rename_calipr_dicom_files.
Relocated ==
    /\ InLoop
    /\ CloseMatch(BestMatch(rrdf_time))
    /\ LET dest == BestMatch(rrdf_time).folder
           h5   == MoveAndRename(folders[dest].h5, rrdf_path, rrdf_path, dest)
       IN  /\ rrdf_path \notin DOMAIN folders[dest].h5
           /\ download' = download \ {rrdf_path}
           /\ matched' = [matched EXCEPT ![rrdf_path] = dest]
           /\ IF IsCalipr(dest)
              THEN \E order \in Orderings(DOMAIN folders[dest].dcm), fault \in 0..2 :
                       LET result == RenameCaliprDicomFiles(folders[dest].dcm, dest,
                                                            order, fault)
                       IN  /\ folders' = [folders EXCEPT ![dest].h5 = h5,
                                                         ![dest].dcm = result.dcm]
                           /\ calipr_call' =
                                  CallRecord(dest, folders[dest].dcm, result)
              ELSE /\ folders' = [folders EXCEPT ![dest].h5 = h5]
                   /\ UNCHANGED calipr_call
    /\ report' = [report EXCEPT ![rrdf_path] = "moved"]
    /\ file_no' = file_no + 1
    /\ UNCHANGED <<pc, listingVars, sessionVars, dicom_acq_times, rrdf_file_times,
                   mainVars>>

\* The loop is over: relocate_rrdf_files_by_time returns.
LoopEnds ==
    /\ pc = "loop"
    /\ file_no > Len(rrdf_file_times)
    /\ pc' = "relocated"
    /\ UNCHANGED <<listingVars, sessionVars, fileVars, relocationVars, mainVars>>

-----------------------------------------------------------------------------
(* The states a variable group has while another function is analysed *)

\* exit_code while the process runs
NoExit == 0 - 1

ListingIdle ==
    /\ stdout_lines = <<>>
    /\ line_no = 1
    /\ exam_folders = <<>>
    /\ latest_exam_folder = None

SessionIdle ==
    /\ export_dirs = {}
    /\ target_session_name = None
    /\ walk_stack = <<>>
    /\ dicom_session_path = NoPath

FilesIdle ==
    /\ download = {}
    /\ folders = EmptyMap

MainIdle ==
    /\ config = "ok"
    /\ reachable = TRUE
    /\ temp_dir = TRUE
    /\ exc = FALSE
    /\ exit_code = NoExit

RelocationIdle ==
    /\ dicom_acq_times = <<>>
    /\ rrdf_file_times = <<>>
    /\ file_no = 1
    /\ report = EmptyMap
    /\ matched = EmptyMap
    /\ calipr_call = NoCall

-----------------------------------------------------------------------------
(* get_latest_exam_folder on the listings `ls -l --full-time` can print *)

MaxLines == 3

ListingPrefix == "drwxr-xr-x 2 rrdf rrdf 4096 "

\* Lines of a well-formed listing: entries with distinct names (two of them
\* modified within the same second, one the day after at an earlier time of
\* day), the total line, the empty last line, an entry without the prefix.
ListingLines ==
    { ListingPrefix \o "2024-01-15 14:30:22.123456789 +0000 rrdf_20240115_143022",
      ListingPrefix \o "2024-01-15 14:30:22.900000000 +0000 rrdf_20240115_142000",
      ListingPrefix \o "2024-01-16 09:00:00.000000000 +0000 rrdf_20240116_085900",
      ListingPrefix \o "2023-12-31 23:59:59.999999999 +0000 rrdf_20231231_235900",
      "-rw-r--r--  1 rrdf rrdf    0 2024-02-01 00:00:00.000000000 +0000 README",
      "total 16",
      "" }

InitListing ==
    /\ pc = "list"
    /\ ListingIdle
    /\ SessionIdle
    /\ FilesIdle
    /\ RelocationIdle
    /\ MainIdle

\* The scanner's reply is any listing of the pool.
ListLines == \E lines \in DistinctSeqs(ListingLines, MaxLines) : ExecListing(lines)

NextListing ==
    \/ ListLines
    \/ ParseLine
    \/ SelectLatest

SpecListing == InitListing /\ [][NextListing]_vars

-----------------------------------------------------------------------------
(* find_dicom_session_path on small export trees *)

MaxDirs == 3

\* Exam folder names: the documented one, one with the pattern inside a
\* longer name, and names the pattern does not match.
ExamNames ==
    { "rrdf_20240115_143022", "xrrdf_20240115_1430229", "rrdf_20240115_14302",
      "rrdf_2024011_143022", "exam" }

\* Directory names: a site folder, the session of 2024-01-15 14:30:22, and
\* two names that differ from it by a character.
DirNames ==
    { "siteA", "2024-01-15_14_30_22", "2024-01-15_14_30_2", "2024-01-15_14_30_22x" }

\* The prefix-closed sets of at most n paths over DirNames.
RECURSIVE Trees(_)
Trees(n) ==
    IF n = 0 THEN {{}}
    ELSE LET smaller == Trees(n - 1)
         IN  smaller \cup
             UNION {{t \cup {Append(q, d)} : q \in t \cup {<<>>}, d \in DirNames} :
                        t \in {u \in smaller : Cardinality(u) = n - 1}}

InitSession ==
    /\ pc = "find"
    /\ stdout_lines = <<>>
    /\ line_no = 1
    /\ exam_folders = <<>>
    /\ latest_exam_folder \in ExamNames
    /\ export_dirs \in Trees(MaxDirs)
    /\ target_session_name = None
    /\ walk_stack = <<>>
    /\ dicom_session_path = NoPath
    /\ FilesIdle
    /\ RelocationIdle
    /\ MainIdle

NextSession ==
    \/ FolderNameUnparsable
    \/ DeriveSessionName
    \/ WalkFound
    \/ WalkDescend
    \/ WalkExhausted

SpecSession == InitSession /\ [][NextSession]_vars

-----------------------------------------------------------------------------
(* relocate_rrdf_files_by_time on small downloads and sessions *)

MaxRaw == 2

DcmFile(acq, ct) == [acq |-> acq, ct |-> ct]

\* Downloaded files: 09:00:30 and 09:00:40, one half an hour later, one
\* whose digits are no date (30 February), one without a timestamp, and one
\* that is no .h5 file.
RawNames ==
    { "scan_20240601_090030.h5", "scan_20240601_090040.h5",
      "scan_20240601_093000.h5", "scan_20240230_090000.h5", "notes.h5",
      "scan_20240601_090030.txt" }

\* The .dcm files of an acquisition folder: none; one acquired at 09:00:32;
\* two acquired at 09:00:32 and at 09:01:30; two acquired at 09:01:29.5 with
\* equal ContentTime; one whose AcquisitionDateTime cannot be read; one whose
\* AcquisitionDateTime has no fraction.
DcmSets ==
    { EmptyMap,
      [n \in {"IM1.dcm"} |-> DcmFile("20240601090032.000000", "090031.2")],
      [n \in {"IM1.dcm", "IM2.dcm"} |->
          IF n = "IM1.dcm" THEN DcmFile("20240601090032.000000", "090031.2")
          ELSE DcmFile("20240601090130.000000", "090033.8")],
      [n \in {"IM1.dcm", "IM2.dcm"} |-> DcmFile("20240601090129.500000", "090031.2")],
      [n \in {"IM1.dcm"} |-> DcmFile(None, "090031.2")],
      [n \in {"IM1.dcm"} |-> DcmFile("20240601090032", "090031.2")] }

FolderNames == {"CALIPR_t2", "t1_axial"}

\* A folder as first exported: its .dcm files, each holding its own content.
Exported(dcm) ==
    [dcm |-> [n \in DOMAIN dcm |-> [id |-> n, acq |-> dcm[n].acq, ct |-> dcm[n].ct]],
     h5  |-> EmptyMap]

Sessions ==
    UNION {[names -> {Exported(d) : d \in DcmSets}] : names \in SUBSET FolderNames}

InitRelocate ==
    /\ pc = "relocate"
    /\ ListingIdle
    /\ SessionIdle
    /\ download \in {d \in SUBSET RawNames : Cardinality(d) <= MaxRaw}
    /\ folders \in Sessions
    /\ RelocationIdle
    /\ MainIdle

NextRelocate ==
    \/ IndexAcquisitions
    \/ IndexRawFiles
    \/ IndexRawFilesRaises
    \/ NoCloseMatch
    \/ MoveFails
    \/ RenameFails
    \/ Relocated
    \/ LoopEnds

SpecRelocate == InitRelocate /\ [][NextRelocate]_vars

-----------------------------------------------------------------------------
(* rename_calipr_dicom_files, called any number of times on one folder *)

MaxDcm == 3

CaliprFolder == "calipr_series"

\* Current names of the folder's .dcm files: as exported, or as an earlier
\* call left them.
CaliprNames ==
    { "IM1.dcm", "IM2.dcm", ProtonDensityName(CaliprFolder), T2mapName(CaliprFolder) }

\* ContentTime values: the two of the documented example, and one that
\* cannot be read.
ContentTimes == {"143015.0", "143022.5", None}

CaliprDcmSets ==
    UNION {[names -> {DcmFile("20240601090032.000000", ct) : ct \in ContentTimes}] :
               names \in {ns \in SUBSET CaliprNames : Cardinality(ns) <= MaxDcm}}

\* rename_calipr_dicom_files(acquisition_folder_path)
CallRenameCalipr ==
    /\ pc = "calipr"
    /\ \E dest \in DOMAIN folders :
         \E order \in Orderings(DOMAIN folders[dest].dcm), fault \in 0..2 :
           LET result == RenameCaliprDicomFiles(folders[dest].dcm, dest, order, fault)
           IN  /\ folders' = [folders EXCEPT ![dest].dcm = result.dcm]
               /\ calipr_call' = CallRecord(dest, folders[dest].dcm, result)
    /\ UNCHANGED <<pc, listingVars, sessionVars, download, dicom_acq_times,
                   rrdf_file_times, file_no, report, matched, mainVars>>

InitCalipr ==
    /\ pc = "calipr"
    /\ ListingIdle
    /\ SessionIdle
    /\ download = {}
    /\ folders \in [{CaliprFolder} -> {Exported(d) : d \in CaliprDcmSets}]
    /\ RelocationIdle
    /\ MainIdle

NextCalipr == CallRenameCalipr

SpecCalipr == InitCalipr /\ [][NextCalipr]_vars

-----------------------------------------------------------------------------
(* main *)

\* NETWORK_CONFIG_PATH: absent, not JSON, JSON without scanner_ip, or valid.
Configs == {"missing", "not_json", "no_key", "ok"}

\* get_scanner_ip: FileNotFoundError, then sys.exit(1)
ConfigMissing ==
    /\ pc = "start"
    /\ config = "missing"
    /\ exit_code' = 1
    /\ pc' = "exit"
    /\ UNCHANGED <<listingVars, sessionVars, fileVars, relocationVars, config,
                   reachable, temp_dir, exc>>

\* get_scanner_ip: JSONDecodeError or KeyError, then sys.exit(1)
ConfigInvalid ==
    /\ pc = "start"
    /\ config \in {"not_json", "no_key"}
    /\ exit_code' = 1
    /\ pc' = "exit"
    /\ UNCHANGED <<listingVars, sessionVars, fileVars, relocationVars, config,
                   reachable, temp_dir, exc>>

\* get_scanner_ip returns config['scanner_ip']
GetScannerIp ==
    /\ pc = "start"
    /\ config = "ok"
    /\ pc' = "connect"
    /\ UNCHANGED <<listingVars, sessionVars, fileVars, relocationVars, mainVars>>

\* ssh.connect raises: "Connection failed", then sys.exit(1)
ConnectFails ==
    /\ pc = "connect"
    /\ ~reachable
    /\ exit_code' = 1
    /\ pc' = "exit"
    /\ UNCHANGED <<listingVars, sessionVars, fileVars, relocationVars, config,
                   reachable, temp_dir, exc>>

\* ssh.connect succeeds: main enters its try block.
Connect ==
    /\ pc = "connect"
    /\ reachable
    /\ pc' = "list"
    /\ UNCHANGED <<listingVars, sessionVars, fileVars, relocationVars, mainVars>>

\* `if not latest_exam_folder: ... return`
NoExam ==
    /\ pc = "listed"
    /\ latest_exam_folder = None
    /\ pc' = "finally"
    /\ UNCHANGED <<listingVars, sessionVars, fileVars, relocationVars, mainVars>>

\* rmtree and makedirs of TEMP_DOWNLOAD_DIR, then scp.get of the exam folder
\* whose files are `files`.
Download(files) ==
    /\ pc = "listed"
    /\ latest_exam_folder # None
    /\ temp_dir' = TRUE
    /\ download' = files
    /\ pc' = "find"
    /\ UNCHANGED <<listingVars, sessionVars, folders, relocationVars, config,
                   reachable, exc, exit_code>>

\* scp.get raises after makedirs: the exception leaves the try block.
DownloadFails ==
    /\ pc = "listed"
    /\ latest_exam_folder # None
    /\ temp_dir' = TRUE
    /\ download' = {}
    /\ exc' = TRUE
    /\ pc' = "finally"
    /\ UNCHANGED <<listingVars, sessionVars, folders, relocationVars, config,
                   reachable, exit_code>>

\* `if dicom_session_path:` relocate_rrdf_files_by_time(...)
StartRelocation ==
    /\ pc = "resolved"
    /\ dicom_session_path # NoPath
    /\ pc' = "relocate"
    /\ UNCHANGED <<listingVars, sessionVars, fileVars, relocationVars, mainVars>>

\* else: "Skipping relocation due to missing DICOM session folder."
SkipRelocation ==
    /\ pc = "resolved"
    /\ dicom_session_path = NoPath
    /\ pc' = "finally"
    /\ UNCHANGED <<listingVars, sessionVars, fileVars, relocationVars, mainVars>>

\* relocate_rrdf_files_by_time returned: the try block is over.
RelocationReturns ==
    /\ pc = "relocated"
    /\ pc' = "finally"
    /\ UNCHANGED <<listingVars, sessionVars, fileVars, relocationVars, mainVars>>

\* An exception raised in a called function leaves the try block.
Propagate ==
    /\ pc = "raised"
    /\ exc' = TRUE
    /\ pc' = "finally"
    /\ UNCHANGED <<listingVars, sessionVars, fileVars, relocationVars, config,
                   reachable, temp_dir, exit_code>>

\* StatusAfterFinally of a main that ends with sys.exit(1) in every case.
StatusAlwaysFailure(propagating) == 1

\* The status the interpreter exits with after the finally block: 1 when an
\* exception is propagating, 0 when main returned.
StatusAfterFinally(propagating) == IF propagating THEN 1 ELSE 0

\* TempDirAfterFinally of a cleanup that runs only when the try block
\* ended without an exception.
TempDirKeptOnError(exists, propagating) == exists /\ propagating

\* `if os.path.exists(TEMP_DOWNLOAD_DIR): shutil.rmtree(TEMP_DOWNLOAD_DIR)`:
\* whether the directory exists afterwards.
TempDirAfterFinally(exists, propagating) == IF exists THEN FALSE ELSE exists

\* finally: rmtree(TEMP_DOWNLOAD_DIR) if it exists, ssh.close(); then the
\* process ends.
Finally ==
    /\ pc = "finally"
    /\ temp_dir' = TempDirAfterFinally(temp_dir, exc)
    /\ download' = {}
    /\ exit_code' = StatusAfterFinally(exc)
    /\ pc' = "exit"
    /\ UNCHANGED <<listingVars, sessionVars, folders, relocationVars, config,
                   reachable, exc>>

\* The listings the scanner sends in the runs of main that are analysed:
\* none, no exam folder, the exam of the documented scenario, an exam folder
\* whose name has no timestamp, and an entry line cut short.
MainListings ==
    { <<"">>,
      <<"total 0", "">>,
      <<"total 4",
        ListingPrefix \o "2024-06-01 09:10:00.000000000 +0000 rrdf_20240601_090000",
        "">>,
      <<ListingPrefix \o "2024-06-01 09:10:00.000000000 +0000 rrdf_latest", "">>,
      <<"drwxr-xr-x 2 rrdf rrdf_20240601_090000", "">> }

ListLinesMain == \E lines \in MainListings : ExecListing(lines)

\* The exam folders the scanner holds in those runs.
RemoteExams ==
    { {},
      {"scan_20240601_090030.h5"},
      {"scan_20240601_090030.h5", "scan_20240230_090000.h5"},
      {"scan_20240601_093000.h5", "notes.h5"} }

DownloadExam == \E files \in RemoteExams : Download(files)

\* The export trees of those runs: without and with the session's folder.
MainTrees ==
    { {<<"siteA">>},
      {<<"siteA">>, <<"siteA", "2024-06-01_09_00_00">>} }

\* The session of the documented scenario.
MainSessions ==
    { [f \in {CaliprFolder} |->
          Exported([n \in {"IM1.dcm", "IM2.dcm"} |->
              IF n = "IM1.dcm" THEN DcmFile("20240601090032.000000", "090031.2")
              ELSE DcmFile("20240601090032.000000", "090033.8")])] }

InitMain ==
    /\ pc = "start"
    /\ ListingIdle
    /\ export_dirs \in MainTrees
    /\ target_session_name = None
    /\ walk_stack = <<>>
    /\ dicom_session_path = NoPath
    /\ download = {}
    /\ folders \in MainSessions
    /\ RelocationIdle
    /\ config \in Configs
    /\ reachable \in BOOLEAN
    /\ temp_dir \in BOOLEAN
    /\ exc = FALSE
    /\ exit_code = NoExit

NextMain ==
    \/ ConfigMissing
    \/ ConfigInvalid
    \/ GetScannerIp
    \/ ConnectFails
    \/ Connect
    \/ ListLinesMain
    \/ ParseLine
    \/ ParseLineRaises
    \/ SelectLatest
    \/ NoExam
    \/ DownloadExam
    \/ DownloadFails
    \/ FolderNameUnparsable
    \/ DeriveSessionName
    \/ WalkFound
    \/ WalkDescend
    \/ WalkExhausted
    \/ StartRelocation
    \/ SkipRelocation
    \/ IndexAcquisitions
    \/ IndexRawFiles
    \/ IndexRawFilesRaises
    \/ NoCloseMatch
    \/ MoveFails
    \/ RenameFails
    \/ Relocated
    \/ LoopEnds
    \/ RelocationReturns
    \/ Propagate
    \/ Finally

Spec == InitMain /\ [][NextMain]_vars

-----------------------------------------------------------------------------
(* Properties *)

\* The lines of the listing that hold the exam-folder prefix.
Qualifying == {i \in 1..Len(stdout_lines) : Contains(stdout_lines[i], "rrdf_")}

EntryName(i) == Last(SplitBlank(stdout_lines[i]))

EntryTime(i) == FolderDatetime(SplitBlank(stdout_lines[i]))

\* C8: for a well-formed listing get_latest_exam_folder returns None exactly
\* when no line qualifies, and otherwise the name of a qualifying entry whose
\* parsed modification time no qualifying entry exceeds; of the listings
\* analysed, those that hold the entry of 2024-01-16 yield that entry.
C8_LatestExamFolder ==
    pc = "listed" =>
        /\ latest_exam_folder = None <=> Qualifying = {}
        /\ Qualifying # {} =>
               \E i \in Qualifying :
                   /\ EntryName(i) = latest_exam_folder
                   /\ \A j \in Qualifying : ~Before(EntryTime(i), EntryTime(j))
        /\ (\E i \in Qualifying : EntryName(i) = "rrdf_20240116_085900")
               => latest_exam_folder = "rrdf_20240116_085900"

\* Three qualifying entries were parsed and the second of them is the latest.
C8_Witness ==
    /\ pc = "listed"
    /\ Len(exam_folders) = 3
    /\ latest_exam_folder = exam_folders[2].key

\* t is YYYY-MM-DD_HH_MM_SS made of the digits of an rrdf_<date>_<time>
\* that name holds.
Canonical(t, name) ==
    /\ Len(t) = 19
    /\ Char(t, 5) = "-" /\ Char(t, 8) = "-"
    /\ Char(t, 11) = "_" /\ Char(t, 14) = "_" /\ Char(t, 17) = "_"
    /\ AllDigits(SubSeq(t, 1, 4) \o SubSeq(t, 6, 7) \o SubSeq(t, 9, 10))
    /\ AllDigits(SubSeq(t, 12, 13) \o SubSeq(t, 15, 16) \o SubSeq(t, 18, 19))
    /\ Contains(name, "rrdf_" \o SubSeq(t, 1, 4) \o SubSeq(t, 6, 7)
                        \o SubSeq(t, 9, 10) \o "_" \o SubSeq(t, 12, 13)
                        \o SubSeq(t, 15, 16) \o SubSeq(t, 18, 19))

\* name holds rrdf_, eight digits, an underscore and six digits.
HasStamp(name) ==
    \E i \in 1..Len(name) :
        /\ i + 19 <= Len(name)
        /\ SubSeq(name, i, i + 4) = "rrdf_"
        /\ AllDigits(SubSeq(name, i + 5, i + 12))
        /\ Char(name, i + 13) = "_"
        /\ AllDigits(SubSeq(name, i + 14, i + 19))

\* C7: find_dicom_session_path searches for the directory YYYY-MM-DD_HH_MM_SS
\* built from the digits of the exam-folder name (rrdf_20240115_143022 gives
\* 2024-01-15_14_30_22); a path it returns is a directory of the export tree
\* whose last component is exactly that name; it returns None when the name
\* lacks the pattern or no directory under the root has exactly that name, and
\* only then.
C7_SessionPath ==
    pc = "resolved" =>
        /\ HasStamp(latest_exam_folder)
               => Canonical(target_session_name, latest_exam_folder)
        /\ latest_exam_folder = "rrdf_20240115_143022"
               => target_session_name = "2024-01-15_14_30_22"
        /\ dicom_session_path # NoPath =>
               /\ HasStamp(latest_exam_folder)
               /\ Last(dicom_session_path) = target_session_name
               /\ dicom_session_path \in export_dirs
        /\ dicom_session_path = NoPath <=>
               \/ ~HasStamp(latest_exam_folder)
               \/ \A d \in export_dirs : Last(d) # target_session_name

\* The session folder was found below a site folder, beside a folder whose
\* name only starts with the target.
C7_Witness ==
    /\ pc = "resolved"
    /\ latest_exam_folder = "rrdf_20240115_143022"
    /\ dicom_session_path = <<"siteA", "2024-01-15_14_30_22">>
    /\ <<"2024-01-15_14_30_22x">> \in export_dirs

\* The raw files of the raw-file time index, and the time of each.
Indexed == {rrdf_file_times[i].key : i \in 1..Len(rrdf_file_times)}

TimeOf(n) ==
    rrdf_file_times[CHOOSE i \in 1..Len(rrdf_file_times) :
                        rrdf_file_times[i].key = n].value

\* The distance of raw file n to the i-th indexed acquisition folder.
Distance(n, i) == AbsDelta(Minus(dicom_acq_times[i].value, TimeOf(n)))

\* The least distance of n to the indexed folders is below one minute.
MinimumBelowMinute(n) ==
    \E i \in 1..Len(dicom_acq_times) : Before(Distance(n, i), OneMinute)

\* Folder f is an indexed folder at the least distance from n.
AchievesMinimum(n, f) ==
    \E i \in 1..Len(dicom_acq_times) :
        /\ dicom_acq_times[i].key = f
        /\ \A j \in 1..Len(dicom_acq_times) : ~Before(Distance(n, j), Distance(n, i))

\* The raw file the loop has just dealt with.
JustProcessed(n) ==
    /\ pc \in {"loop", "relocated"}
    /\ file_no > 1
    /\ rrdf_file_times[file_no - 1].key = n

\* C1: a raw file of the time index leaves the download folder only if its
\* least distance to the indexed acquisition folders is below one minute; at
\* one minute or more, or with no folder indexed, it stays in the download
\* folder under its name and is reported unmatched; below one minute it is
\* either reported as an error or moved into a folder at that least distance,
\* where it is once its iteration ends; and the loop deals with every file.
C1_MovedOnlyWithinTolerance ==
    pc \in {"loop", "relocated"} =>
        \A n \in Indexed :
            /\ n \notin download => MinimumBelowMinute(n)
            /\ ~MinimumBelowMinute(n) =>
                   /\ n \in download
                   /\ report[n] \in {"pending", "unmatched"}
            /\ MinimumBelowMinute(n) => report[n] \in {"pending", "moved", "error"}
            /\ report[n] = "moved" =>
                   /\ AchievesMinimum(n, matched[n])
                   /\ n \notin download
            /\ report[n] = "moved" /\ JustProcessed(n) =>
                   /\ NewH5Name(matched[n]) \in DOMAIN folders[matched[n]].h5
                   /\ folders[matched[n]].h5[NewH5Name(matched[n])] = n
            /\ pc = "relocated" => report[n] # "pending"

\* The loop is over: one file was moved, one was at exactly one minute from
\* the only indexed folder and stayed.
C1_Witness ==
    /\ pc = "relocated"
    /\ Len(dicom_acq_times) = 1
    /\ \E n, m \in Indexed :
           /\ report[n] = "moved"
           /\ report[m] = "unmatched"
           /\ Distance(m, 1) = OneMinute

\* C2: when relocate_rrdf_files_by_time has returned, every raw file whose
\* move and rename raised nothing is in its matched folder under the name
\* <folder>.h5, and no file of its original name is left in the download
\* folder or in that folder.
C2_RelocationNaming ==
    pc = "relocated" =>
        \A n \in Indexed :
            report[n] = "moved" =>
                /\ NewH5Name(matched[n]) \in DOMAIN folders[matched[n]].h5
                /\ folders[matched[n]].h5[NewH5Name(matched[n])] = n
                /\ n \notin download
                /\ n \notin DOMAIN folders[matched[n]].h5

\* Both ContentTime values of a folder's files can be read.
Readable(dcm) == \A n \in DOMAIN dcm : Float(dcm[n].ct).ok

\* C3: a call of rename_calipr_dicom_files on a folder that does not hold
\* exactly two .dcm files renames nothing; a call that read two ContentTime
\* values and renamed without error leaves the file with the earlier one as
\* <folder>_protonDensity.dcm and the file with the later one as
\* <folder>_T2map.dcm.
C3_CaliprRoles ==
    calipr_call.status # "none" =>
        LET before == calipr_call.before
            after  == folders[calipr_call.folder].dcm
            pd     == ProtonDensityName(calipr_call.folder)
            t2     == T2mapName(calipr_call.folder)
        IN  /\ Cardinality(DOMAIN before) # 2 => after = before
            /\ calipr_call.status = "renamed" =>
                   \A e, l \in DOMAIN before :
                       Before(Float(before[e].ct), Float(before[l].ct)) =>
                           /\ pd \in DOMAIN after
                           /\ t2 \in DOMAIN after
                           /\ after[pd].id = before[e].id
                           /\ after[t2].id = before[l].id

\* C4: relocate_rrdf_files_by_time is never cut short: when it is over, every
\* .h5 file of the download whose name holds a timestamp has been dealt with,
\* and the files still in the download folder are those reported unmatched or
\* in error.
C4_ContinueOnError ==
    pc \in {"relocated", "raised"} =>
        /\ \A n \in Indexed : report[n] # "pending"
        /\ \A n \in Stamped :
               /\ RrdfDatetime(n).ok => n \in Indexed
               /\ n \in Indexed => report[n] \in {"unmatched", "error"}

\* C5 as stated: when main has ended, TEMP_DOWNLOAD_DIR does not exist.
C5_CleanupInEveryRun == pc = "exit" => ~temp_dir

\* C5, amended: when a run that connected to the scanner has ended, whether
\* main returned or an exception left it, TEMP_DOWNLOAD_DIR does not exist; a
\* run that ends at the configuration or the connection leaves the directory
\* as it found it.
C5_CleanupAfterConnecting ==
    pc = "exit" =>
        /\ config = "ok" /\ reachable => ~temp_dir
        /\ ~(config = "ok" /\ reachable) => exit_code = 1

\* A run whose session folder was found ended with an exception in the
\* relocation, and the directory is gone.
C5_Witness ==
    /\ pc = "exit"
    /\ exc
    /\ dicom_session_path # NoPath
    /\ ~temp_dir

\* C6: a run ends with status 1 when the configuration file is missing or
\* holds no scanner_ip, or when the connection fails; it ends with status 0
\* when the listing holds no exam folder, when the session folder is not
\* resolved (nothing is then relocated and the directory is removed all the
\* same), and when the relocation has dealt with every raw file, whatever it
\* matched.
C6_RunOutcome ==
    pc = "exit" =>
        /\ config # "ok" => exit_code = 1
        /\ ~reachable => exit_code = 1
        /\ config = "ok" /\ reachable =>
               /\ stdout_lines # <<>> /\ Qualifying = {} => exit_code = 0
               /\ ~exc /\ latest_exam_folder # None /\ dicom_session_path = NoPath =>
                      /\ exit_code = 0
                      /\ report = EmptyMap
                      /\ ~temp_dir
               /\ ~exc /\ dicom_session_path # NoPath =>
                      /\ exit_code = 0
                      /\ \A n \in Indexed : report[n] # "pending"

\* A run whose exam folder name holds no timestamp skipped the relocation
\* and ended with status 0.
C6_Witness ==
    /\ pc = "exit"
    /\ exit_code = 0
    /\ latest_exam_folder = "rrdf_latest"
    /\ dicom_session_path = NoPath

\* C9: every raw file whose move and rename raised nothing is still in its
\* matched folder, whichever raw files the loop relocated after it.
C9_NoRawFileLost ==
    \A n \in Indexed :
        report[n] = "moved" =>
            \E name \in DOMAIN folders[matched[n]].h5 :
                folders[matched[n]].h5[name] = n

\* C10: a call of rename_calipr_dicom_files on a folder that holds two .dcm
\* files with readable ContentTime leaves two .dcm files with the contents
\* the folder held.
C10_CaliprKeepsBoth ==
    /\ calipr_call.status # "none"
    /\ Cardinality(DOMAIN calipr_call.before) = 2
    /\ Readable(calipr_call.before)
    => LET after == folders[calipr_call.folder].dcm
       IN  /\ Cardinality(DOMAIN after) = 2
           /\ {after[n].id : n \in DOMAIN after}
                  = {calipr_call.before[n].id : n \in DOMAIN calipr_call.before}

=============================================================================
